---- MODULE Spec2Model ----
(***************************************************************************)
(* Model of pincer/utils/event_mgr.py: the event manager (EventMgr), its   *)
(* one-shot waiter (_DiscordEvent) and its streaming waiter (_LoopMgr).    *)
(*                                                                         *)
(* The program runs on one asyncio event loop: a coroutine runs without    *)
(* interruption from one suspension point to the next, so every action     *)
(* below is one such uninterrupted stretch of code.                        *)
(*                                                                         *)
(* Optional Python values (None or a value) are written <<>> for None and  *)
(* <<v>> for the value v.                                                  *)
(***************************************************************************)
EXTENDS Integers, Sequences, FiniteSets, TLC

\* ---------------------------------------------------------------- bounds
MaxCallers  == 2    \* number of callers of wait_for
MaxItems    == 2    \* events one streaming waiter accepts in a behaviour
MaxElapsed  == 2    \* longest time measured between two clock readings
MaxTimeout  == 2    \* largest timeout a caller passes to loop_for
MaxWait     == 1    \* largest timeout a caller passes to wait_for
MaxEvents   == 1    \* number of direct calls of add_event

\* ---------------------------------------------------------------- values
None    == <<>>
Some(v) == <<v>>

Callers  == 1..MaxCallers
Names    == {"on_a", "on_b"}
Payloads == {1, 2}
ArgTuples == {<<p>> : p \in Payloads}
NoCheck  == "None"
Checks   == {NoCheck, "is_one"}
Timeouts == {None} \cup {Some(t) : t \in 0..MaxTimeout}
\* wait_for reads no clock: it only tells no timeout, a timeout that is not
\* positive and a positive one apart.
WaitTimeouts == {None, Some(0), Some(MaxWait)}

VARIABLES
    objs,        \* the subscriptions ever constructed, by identity (index)
    event_list,  \* EventMgr.event_list: identities, in insertion order
    callers,     \* per caller of wait_for: the coroutine frame
    gen,         \* the frame of the loop_for generator and its consumer
    hist         \* history of each subscription, by identity (see below)

vars == <<objs, event_list, callers, gen, hist>>

Range(s) == {s[i] : i \in DOMAIN s}

\* ------------------------------------------------------------- predicates
\* The caller-supplied check function, applied to the argument tuple.
CheckApply(check, args) ==
    IF check = "is_one" THEN args[1] = 1 ELSE TRUE

\* Python truthiness of a check: None is falsy, a function is truthy.
CheckTruthy(check) == check # NoCheck

\* Python truthiness of an optional number: None and 0 are falsy.
Truthy(n) == n # None /\ n[1] # 0

\* --------------------------------------------------- Processable (l.12-27)
matches_event_ignoring_name(self, event_name, args) ==
    LET s == [self EXCEPT !.return_value = Some(args)]
    IN  IF CheckTruthy(self.check)
        THEN [ret |-> CheckApply(self.check, args), self |-> s]
        ELSE [ret |-> TRUE, self |-> s]

matches_event_ignoring_check(self, event_name, args) ==
    IF self.event_name # event_name
    THEN [ret |-> FALSE, self |-> self]
    ELSE [ret |-> TRUE, self |-> [self EXCEPT !.return_value = Some(args)]]

\* Returns the boolean result and the subscription after the call.
matches_event(self, event_name, args) ==
    IF self.event_name # event_name
    THEN [ret |-> FALSE, self |-> self]
    ELSE LET s == [self EXCEPT !.return_value = Some(args)]
         IN  IF CheckTruthy(self.check)
             THEN [ret |-> CheckApply(self.check, args), self |-> s]
             ELSE [ret |-> TRUE, self |-> s]

\* ------------------------------------------------- _lowest_value (l.30-35)
\* min() of the truthy arguments; min([]) raises ValueError.
LowestArgs(a, b) ==
    {n[1] : n \in {x \in {a, b} : Truthy(x)}}

lowest_value_raises(a, b) == LowestArgs(a, b) = {}

lowest_value(a, b) ==
    CHOOSE m \in LowestArgs(a, b) : \A n \in LowestArgs(a, b) : m <= n

\* ------------------------------------------------- _DiscordEvent (l.38-81)
DiscordEvent(event_name, check) ==
    [kind |-> "event", event_name |-> event_name, check |-> check,
     return_value |-> None, flag |-> FALSE]

DiscordEvent_process_any_dispatch(self, event_name, args) ==
    LET m == matches_event(self, event_name, args)
    IN  [m.self EXCEPT !.flag = TRUE]

DiscordEvent_process(self, event_name, args) ==
    LET m == matches_event(self, event_name, args)
    IN  IF m.ret THEN [m.self EXCEPT !.flag = TRUE] ELSE m.self

\* ----------------------------------------------------- _LoopMgr (l.88-115)
\* return_value does not exist on a new _LoopMgr; matches_event creates it.
LoopMgr(event_name, check) ==
    [kind |-> "loop", event_name |-> event_name, check |-> check,
     return_value |-> None,
     can_expand |-> TRUE, events |-> <<>>, wait |-> FALSE]

LoopMgr_process_when_closed(self, event_name, args) ==
    LET m == matches_event(self, event_name, args)
    IN  IF m.ret
        THEN [m.self EXCEPT !.events = Append(@, args), !.wait = TRUE]
        ELSE m.self

LoopMgr_process_prepending(self, event_name, args) ==
    IF ~self.can_expand
    THEN self
    ELSE LET m == matches_event(self, event_name, args)
         IN  IF m.ret
             THEN [m.self EXCEPT !.events = <<args>> \o @, !.wait = TRUE]
             ELSE m.self

LoopMgr_process(self, event_name, args) ==
    IF ~self.can_expand
    THEN self
    ELSE LET m == matches_event(self, event_name, args)
         IN  IF m.ret
             THEN [m.self EXCEPT !.events = Append(@, args), !.wait = TRUE]
             ELSE m.self

\* get_next up to its first suspension or its end.  outcome is
\*   "item"    an item was popped (l.115),
\*   "empty"   LoopEmptyError was raised (l.109),
\*   "suspend" the signal was cleared and the coroutine waits (l.111-112).
get_next_dropping_backlog(self) ==
    IF ~self.can_expand
    THEN [outcome |-> "empty", item |-> None, self |-> self]
    ELSE IF Len(self.events) = 0
    THEN [outcome |-> "suspend", item |-> None,
          self |-> [self EXCEPT !.wait = FALSE]]
    ELSE [outcome |-> "item", item |-> Some(Head(self.events)),
          self |-> [self EXCEPT !.events = Tail(@)]]

get_next_raising_when_open(self) ==
    IF Len(self.events) = 0
    THEN [outcome |-> "empty", item |-> None, self |-> self]
    ELSE [outcome |-> "item", item |-> Some(Head(self.events)),
          self |-> [self EXCEPT !.events = Tail(@)]]

get_next_keeping_signal(self) ==
    IF Len(self.events) = 0
    THEN IF ~self.can_expand
         THEN [outcome |-> "empty", item |-> None, self |-> self]
         ELSE [outcome |-> "suspend", item |-> None, self |-> self]
    ELSE [outcome |-> "item", item |-> Some(Head(self.events)),
          self |-> [self EXCEPT !.events = Tail(@)]]

get_next(self) ==
    IF Len(self.events) = 0
    THEN IF ~self.can_expand
         THEN [outcome |-> "empty", item |-> None, self |-> self]
         ELSE [outcome |-> "suspend", item |-> None,
               self |-> [self EXCEPT !.wait = FALSE]]
    ELSE [outcome |-> "item", item |-> Some(Head(self.events)),
          self |-> [self EXCEPT !.events = Tail(@)]]

\* get_next resumed after the signal was raised: l.113.
get_next_resume(self) ==
    [item |-> Some(Head(self.events)),
     self |-> [self EXCEPT !.events = Tail(@)]]

\* ---------------------------------------------------- EventMgr (l.118-163)
process(self, event_name, args) ==
    IF self.kind = "event"
    THEN DiscordEvent_process(self, event_name, args)
    ELSE LoopMgr_process(self, event_name, args)

ProcessFirstOnly(list, heap, event_name, args) ==
    IF list = <<>>
    THEN heap
    ELSE [heap EXCEPT ![Head(list)] = process(@, event_name, args)]

ProcessLastOnly(list, heap, event_name, args) ==
    IF list = <<>>
    THEN heap
    ELSE [heap EXCEPT ![list[Len(list)]] = process(@, event_name, args)]

\* The for loop of process_events over the list, in list order.
RECURSIVE ProcessAll(_, _, _, _)
ProcessAll(list, heap, event_name, args) ==
    IF list = <<>>
    THEN heap
    ELSE ProcessAll(Tail(list),
                    [heap EXCEPT ![Head(list)] = process(@, event_name, args)],
                    event_name, args)

\* list.remove(x): removes the first element equal to x.
RECURSIVE list_remove(_, _)
list_remove(list, x) ==
    IF list = <<>> THEN <<>>
    ELSE IF Head(list) = x THEN Tail(list)
    ELSE <<Head(list)>> \o list_remove(Tail(list), x)

\* ----------------------------------------------------------------- history
\* hist records, for every subscription, what the code does not keep:
\*   first     the arguments of the first dispatch, processed while its caller
\*             was suspended in wait_for, with its name and a true check
\*             (one-shot waiters only);
\*   again     a dispatch with its name was processed after that first one,
\*             while its caller was still suspended;
\*             (both are forgotten when wait_for ends without returning);
\*   accepted  the arguments of the dispatches with its name and a true check
\*             processed while it was in event_list and open, in order
\*             (streaming waiters only);
\*   late      such a dispatch was processed after it was closed;
\*   drained   the number of items yielded by the drain loop;
\*   remove_raised  event_list.remove raised ValueError for it.
NoHistory ==
    [first |-> None, again |-> FALSE, accepted |-> <<>>, late |-> FALSE,
     drained |-> 0, remove_raised |-> FALSE]

Satisfies(self, event_name, args) ==
    /\ self.event_name = event_name
    /\ (self.check = NoCheck \/ CheckApply(self.check, args))

HistoryAfter(h, self, suspended, event_name, args) ==
    [h EXCEPT
       !.first = IF suspended /\ @ = None /\ Satisfies(self, event_name, args)
                 THEN Some(args) ELSE @,
       !.again = @ \/ (suspended /\ self.event_name = event_name
                       /\ h.first # None),
       !.accepted = IF self.kind = "loop" /\ self.can_expand
                       /\ Satisfies(self, event_name, args)
                    THEN Append(@, args) ELSE @,
       !.late = @ \/ (self.kind = "loop" /\ ~self.can_expand
                      /\ Satisfies(self, event_name, args))]

RecordDispatch(event_name, args) ==
    hist' = [i \in DOMAIN hist |->
               IF i \in Range(event_list)
               THEN HistoryAfter(hist[i], objs[i],
                                 \E c \in Callers : /\ callers[c].sub = i
                                                    /\ callers[c].pc = "wf_wait",
                                 event_name, args)
               ELSE hist[i]]

\* ------------------------------------------------------------------- frames
\* A caller of wait_for: its position, its local `event` (sub), the timeout
\* of the wait in progress (None when no timer is armed) and what it returned.
IdleCaller ==
    [pc |-> "idle", sub |-> 0, timeout |-> None, result |-> None]

\* The loop_for generator: its arguments, its position, its locals
\* `loop_mgr` (sub) and `loop_timeout`, the timeout of the wait in progress,
\* the task in which asyncio's wait_for runs get_next ("none", "new" before
\* its first step, "waiting" on the signal, "done", "failed") with the item
\* it returned, and what loop_for has yielded to its consumer so far.
IdleGen ==
    [pc |-> "idle", sub |-> 0,
     iteration_timeout |-> None, loop_timeout |-> None,
     timeout |-> None, task |-> "none", item |-> None, yielded |-> <<>>]

Init ==
    /\ objs = <<>>
    /\ event_list = <<>>
    /\ callers = [c \in Callers |-> IdleCaller]
    /\ gen = IdleGen
    /\ hist = <<>>

\* process_events(event_name, *args), l.153-163.
process_events(event_name, args) ==
    /\ \A i \in Range(event_list) :
          (/\ objs[i].kind = "loop"
           /\ objs[i].can_expand
           /\ Satisfies(objs[i], event_name, args))
             => Len(gen.yielded) + Len(gen.item) + Len(objs[i].events)
                    < MaxItems
    /\ objs' = ProcessAll(event_list, objs, event_name, args)
    /\ RecordDispatch(event_name, args)
    /\ UNCHANGED <<event_list, callers, gen>>

\* add_event / the registration of loop_for (l.146-151, l.224-225): the new
\* subscription gets the next identity and goes to the end of the list.
Register(obj) ==
    /\ objs' = Append(objs, obj)
    /\ event_list' = Append(event_list, Len(objs) + 1)
    /\ hist' = Append(hist, NoHistory)

\* add_event(event_name, check) called on its own, l.129-151: the returned
\* _DiscordEvent is in the list and no coroutine waits on it.  These calls
\* are made before loop_for starts.
add_event(event_name, check) ==
    /\ Len(objs) < MaxEvents
    /\ gen.pc = "idle"
    /\ Register(DiscordEvent(event_name, check))
    /\ UNCHANGED <<callers, gen>>

\* ---------------------------------------------------- wait_for (l.165-195)
\* The call up to its suspension at l.189.
wait_for_call(c, event_name, check, timeout) ==
    /\ callers[c].pc = "idle"
    /\ \A d \in Callers : d < c => callers[d].pc # "idle"
    /\ Register(DiscordEvent(event_name, check))
    /\ callers' = [callers EXCEPT ![c] =
         [@ EXCEPT !.sub = Len(objs) + 1, !.timeout = timeout,
                   !.pc = "wf_wait"]]
    /\ UNCHANGED <<gen>>

\* The signal was raised and the caller runs again: l.194-195.
\* list.remove raises ValueError when the element is not in the list.
\* With a timeout that is not positive asyncio's wait_for cancels the wait on
\* the signal before it has started, so only the timeout ends the call.
wait_for_resume(c) ==
    /\ callers[c].pc = "wf_wait"
    /\ IF callers[c].timeout = None THEN TRUE
       ELSE callers[c].timeout[1] > 0
    /\ objs[callers[c].sub].flag
    /\ IF callers[c].sub \in Range(event_list)
       THEN /\ event_list' = list_remove(event_list, callers[c].sub)
            /\ callers' = [callers EXCEPT ![c] =
                 [@ EXCEPT !.pc = "wf_returned", !.timeout = None,
                           !.result = objs[callers[c].sub].return_value]]
       ELSE /\ event_list' = event_list
            /\ callers' = [callers EXCEPT ![c] =
                 [@ EXCEPT !.pc = "wf_value_error", !.timeout = None]]
    /\ UNCHANGED <<objs, gen, hist>>

\* The statement of l.194, self.event_list.remove(event), run for the
\* one-shot waiter i by whoever holds it: list.remove raises ValueError when
\* the element is not in the list.
event_list_remove(i) ==
    /\ objs[i].kind = "event"
    /\ ~hist[i].remove_raised
    /\ IF i \in Range(event_list)
       THEN /\ event_list' = list_remove(event_list, i)
            /\ hist' = hist
       ELSE /\ event_list' = event_list
            /\ hist' = [hist EXCEPT ![i].remove_raised = TRUE]
    /\ UNCHANGED <<objs, callers, gen>>

\* The timeout of asyncio's wait_for fired first: l.190-193.
wait_for_timeout(c) ==
    /\ callers[c].pc = "wf_wait"
    /\ callers[c].timeout # None
    /\ callers' = [callers EXCEPT ![c] =
         [@ EXCEPT !.pc = "wf_timeout", !.timeout = None]]
    /\ hist' = [hist EXCEPT ![callers[c].sub] = NoHistory]
    /\ UNCHANGED <<objs, event_list, gen>>

\* The task suspended at l.189 is cancelled: CancelledError leaves wait_for.
wait_for_cancel(c) ==
    /\ callers[c].pc = "wf_wait"
    /\ callers' = [callers EXCEPT ![c] =
         [@ EXCEPT !.pc = "wf_cancelled", !.timeout = None]]
    /\ hist' = [hist EXCEPT ![callers[c].sub] = NoHistory]
    /\ UNCHANGED <<objs, event_list, gen>>

\* ---------------------------------------------------- loop_for (l.197-256)
\* One pass of `while True` from l.230 to the suspension of l.233.  The
\* timeout is positive (_lowest_value drops 0), so asyncio's wait_for wraps
\* get_next() in a task of its own and suspends loop_for before get_next
\* has run a line.
LoopStep(f) ==
    IF lowest_value_raises(f.loop_timeout, f.iteration_timeout)
    THEN [f EXCEPT !.pc = "lf_value_error"]
    ELSE [f EXCEPT
            !.timeout = Some(lowest_value(f.loop_timeout, f.iteration_timeout)),
            !.pc = "lf_wait", !.task = "new"]

\* The frame once the wait of l.233 is over for good: its task is gone, and
\* the timeouts, which nothing reads after that, are dropped.
Ended(f) ==
    [f EXCEPT !.task = "none", !.timeout = None,
              !.iteration_timeout = None, !.loop_timeout = None]

\* One pass of the drain loop, l.244-249; get_next is awaited directly.
DrainStep(f, mgr) ==
    LET g == get_next(mgr)
    IN  IF g.outcome = "item"
        THEN [frame |-> [f EXCEPT !.pc = "lf_drain_yield",
                                  !.yielded = Append(@, g.item[1])],
              mgr |-> g.self, drained |-> 1]
        ELSE IF g.outcome = "empty"
        THEN [frame |-> [f EXCEPT !.pc = "lf_timeout"],
              mgr |-> g.self, drained |-> 0]
        ELSE [frame |-> [f EXCEPT !.pc = "lf_drain_wait"],
              mgr |-> g.self, drained |-> 0]

\* The first request for an item: l.224-238.
loop_for_start(event_name, check, iteration_timeout, loop_timeout) ==
    /\ gen.pc = "idle"
    /\ LET id == Len(objs) + 1
           f0 == [gen EXCEPT !.sub = id,
                             !.iteration_timeout = iteration_timeout,
                             !.loop_timeout = loop_timeout]
       IN  /\ objs' = Append(objs, LoopMgr(event_name, check))
           /\ event_list' = Append(event_list, id)
           /\ gen' = LoopStep(f0)
    /\ hist' = Append(hist, NoHistory)
    /\ UNCHANGED <<callers>>

\* The task of get_next runs for the first time, l.106-115: it pops an item
\* and ends, or clears the signal and suspends on it, or raises
\* LoopEmptyError.
loop_for_get_next ==
    /\ gen.pc = "lf_wait"
    /\ gen.task = "new"
    /\ LET g == get_next(objs[gen.sub])
       IN  /\ objs' = [objs EXCEPT ![gen.sub] = g.self]
           /\ gen' = IF g.outcome = "item"
                     THEN [gen EXCEPT !.task = "done", !.item = g.item]
                     ELSE IF g.outcome = "suspend"
                     THEN [gen EXCEPT !.task = "waiting"]
                     ELSE [gen EXCEPT !.task = "failed"]
    /\ UNCHANGED <<event_list, callers, hist>>

\* The wake signal was raised and the task of get_next runs again: l.113.
loop_for_wake ==
    /\ gen.pc = "lf_wait"
    /\ gen.task = "waiting"
    /\ objs[gen.sub].wait
    /\ LET g == get_next_resume(objs[gen.sub])
       IN  /\ objs' = [objs EXCEPT ![gen.sub] = g.self]
           /\ gen' = [gen EXCEPT !.task = "done", !.item = g.item]
    /\ UNCHANGED <<event_list, callers, hist>>

\* The task of get_next has ended and loop_for runs again: wait_for returns
\* its result, which l.233 yields, or raises its exception.
loop_for_deliver ==
    /\ gen.pc = "lf_wait"
    /\ gen.task \in {"done", "failed"}
    /\ gen' = IF gen.task = "done"
              THEN [gen EXCEPT !.pc = "lf_yield", !.task = "none",
                               !.item = None,
                               !.yielded = Append(@, gen.item[1])]
              ELSE [gen EXCEPT !.pc = "lf_empty_error", !.task = "none"]
    /\ UNCHANGED <<objs, event_list, callers, hist>>

\* The bounded wait timed out before the task of get_next ended (wait_for
\* returns the result of a task that has ended): the task is cancelled where
\* it stands, before any pop; then l.240-249 up to the first yield of the
\* drain loop or the TimeoutError.
loop_for_timeout ==
    /\ gen.pc = "lf_wait"
    /\ gen.task \in {"new", "waiting"}
    /\ gen.timeout # None
    /\ LET r == DrainStep(Ended(gen),
                          [objs[gen.sub] EXCEPT !.can_expand = FALSE])
       IN  /\ objs' = [objs EXCEPT ![gen.sub] = r.mgr]
           /\ gen' = r.frame
           /\ hist' = [hist EXCEPT ![gen.sub].drained = @ + r.drained]
    /\ UNCHANGED <<event_list, callers>>

loop_for_next_strict(elapsed) ==
    /\ gen.pc = "lf_yield"
    /\ IF gen.loop_timeout = None
       THEN gen' = [gen EXCEPT !.pc = "lf_type_error"]
       ELSE LET left == gen.loop_timeout[1] - elapsed
                f1 == [gen EXCEPT !.loop_timeout = Some(left)]
            IN  IF left < 0
                THEN gen' = [f1 EXCEPT !.pc = "lf_stop"]
                ELSE gen' = LoopStep(f1)
    /\ UNCHANGED <<objs, event_list, callers, hist>>

\* The consumer asks for the next item after the yield of l.233: l.251-256,
\* then the next pass.  elapsed is loop.time() - start_time, the time from
\* l.230 to now.  `None - float` raises TypeError.
loop_for_next(elapsed) ==
    /\ gen.pc = "lf_yield"
    /\ IF gen.loop_timeout = None
       THEN gen' = [gen EXCEPT !.pc = "lf_type_error"]
       ELSE LET left == gen.loop_timeout[1] - elapsed
                f1 == [gen EXCEPT !.loop_timeout = Some(left)]
            IN  IF left <= 0
                THEN gen' = [f1 EXCEPT !.pc = "lf_stop"]
                ELSE gen' = LoopStep(f1)
    /\ UNCHANGED <<objs, event_list, callers, hist>>

\* The consumer asks for the next item after the yield of l.245.
loop_for_drain_next ==
    /\ gen.pc = "lf_drain_yield"
    /\ LET r == DrainStep(gen, objs[gen.sub])
       IN  /\ objs' = [objs EXCEPT ![gen.sub] = r.mgr]
           /\ gen' = r.frame
           /\ hist' = [hist EXCEPT ![gen.sub].drained = @ + r.drained]
    /\ UNCHANGED <<event_list, callers>>

\* The consumer is cancelled while the generator waits at l.233 (wait_for
\* cancels the task of get_next where it stands; when that task has ended
\* wait_for returns its result instead), or it abandons the generator at a
\* yield (break, aclose): the exception leaves loop_for.
loop_for_cancel ==
    /\ \/ gen.pc \in {"lf_yield", "lf_drain_yield"}
       \/ gen.pc = "lf_wait" /\ gen.task \in {"new", "waiting"}
    /\ gen' = [Ended(gen) EXCEPT !.pc = "lf_cancelled"]
    /\ UNCHANGED <<objs, event_list, callers, hist>>

\* ------------------------------------------------------------ specification
\* The event source and the callers of wait_for.
NextWait ==
    \/ \E n \in Names, a \in ArgTuples : process_events(n, a)
    \/ \E c \in Callers, n \in Names, k \in Checks, t \in WaitTimeouts :
           wait_for_call(c, n, k, t)
    \/ \E c \in Callers : wait_for_resume(c)
    \/ \E c \in Callers : wait_for_timeout(c)
    \/ \E c \in Callers : wait_for_cancel(c)

SpecWait == Init /\ [][NextWait]_vars

\* The event source and the consumer of loop_for.
NextLoop ==
    \/ \E n \in Names, a \in ArgTuples : process_events(n, a)
    \/ \E n \in Names, k \in Checks, it \in Timeouts, lt \in Timeouts :
           loop_for_start(n, k, it, lt)
    \/ loop_for_get_next
    \/ loop_for_wake
    \/ loop_for_deliver
    \/ loop_for_timeout
    \/ \E e \in 0..MaxElapsed : loop_for_next(e)
    \/ loop_for_drain_next
    \/ loop_for_cancel

SpecLoop == Init /\ [][NextLoop]_vars

\* The event source and callers of wait_for that pass no timeout.
NextNoTimeout ==
    \/ \E n \in Names, a \in ArgTuples : process_events(n, a)
    \/ \E c \in Callers, n \in Names, k \in Checks :
           wait_for_call(c, n, k, None)
    \/ \E c \in Callers : wait_for_resume(c)
    \/ \E c \in Callers : wait_for_cancel(c)

SpecNoTimeout == Init /\ [][NextNoTimeout]_vars

\* The event source, callers of wait_for that pass no timeout, and removals
\* of their waiters from the list by other code.
NextRemove ==
    \/ NextNoTimeout
    \/ \E i \in DOMAIN objs : event_list_remove(i)

SpecRemove == Init /\ [][NextRemove]_vars

\* The event source, one-shot subscriptions registered with add_event, and
\* after them the consumer of a loop_for that has no iteration_timeout.
Next ==
    \/ \E n \in Names, a \in ArgTuples : process_events(n, a)
    \/ \E n \in Names, k \in Checks : add_event(n, k)
    \/ \E n \in Names, k \in Checks, lt \in Timeouts :
           loop_for_start(n, k, None, lt)
    \/ loop_for_get_next
    \/ loop_for_wake
    \/ loop_for_deliver
    \/ loop_for_timeout
    \/ \E e \in 0..MaxElapsed : loop_for_next(e)
    \/ loop_for_drain_next
    \/ loop_for_cancel

Spec == Init /\ [][Next]_vars

\* ===================================================================== claims
InList(i) == i \in Range(event_list)

\* Only process_events leaves every frame and the list as they are.
DispatchStep == UNCHANGED <<event_list, callers, gen>>

IsSuffix(s, t) ==
    \E k \in 0..Len(t) : s = SubSeq(t, k + 1, Len(t))

\* C1: once wait_for has ended, by a match or by wait-timeout, the waiter it
\* registered is no longer in event_list.
C1_NoWaiterAfterWaitFor ==
    \A c \in Callers :
        callers[c].pc \in {"wf_returned", "wf_timeout"}
            => ~InList(callers[c].sub)

\* C2: once loop_for has terminated (normal stop, loop-timeout, cancellation
\* or abandonment of the consumer) its streaming waiter is no longer in
\* event_list.
C2_NoWaiterAfterLoopFor ==
    gen.pc \in {"lf_stop", "lf_timeout", "lf_cancelled"} => ~InList(gen.sub)

\* C3: the value wait_for returns is the argument tuple of the first dispatch
\* that matched its waiter (name equal and check true), whatever is dispatched
\* between the raising of the signal and the resumption of the caller.
C3_ReturnsFirstMatch ==
    \A c \in Callers :
        callers[c].pc = "wf_returned"
            => callers[c].result = hist[callers[c].sub].first

\* C4: callers suspended in wait_for on one event name with no check and no
\* timeout are all resolved by a single dispatch of that name: the dispatch
\* raises the signal of every one of them, each returns the dispatched
\* arguments, once, its waiter leaves event_list, and event_list is empty when
\* all have returned.
C4_DispatchReachesAll ==
    \A n \in Names, a \in ArgTuples :
        (DispatchStep /\ process_events(n, a)) =>
            \A c \in Callers :
                (/\ callers[c].pc = "wf_wait"
                 /\ objs[callers[c].sub].event_name = n
                 /\ objs[callers[c].sub].check = NoCheck)
                    => /\ objs'[callers[c].sub].flag
                       /\ objs'[callers[c].sub].return_value = Some(a)

C4_ReturnsOnce ==
    \A c \in Callers :
        callers[c].pc = "wf_returned" => callers'[c] = callers[c]

C4_Resolved ==
    /\ \A c \in Callers :
         (/\ callers[c].pc \in {"wf_wait", "wf_returned"}
          /\ objs[callers[c].sub].check = NoCheck
          /\ callers[c].timeout = None
          /\ hist[callers[c].sub].first # None
          /\ ~hist[callers[c].sub].again)
            => /\ objs[callers[c].sub].flag
               /\ callers[c].pc = "wf_returned"
                    => /\ callers[c].result = hist[callers[c].sub].first
                       /\ ~InList(callers[c].sub)
    /\ (\A c \in Callers : callers[c].pc \in {"idle", "wf_returned"})
            => event_list = <<>>

C4_SingleDispatchResolvesAll ==
    /\ [][C4_DispatchReachesAll /\ C4_ReturnsOnce]_vars
    /\ []C4_Resolved

\* Every caller is suspended on the same name with no check and no timeout,
\* and one dispatch has raised all their signals.
C4_Witness ==
    \A c \in Callers :
        /\ callers[c].pc = "wf_wait"
        /\ callers[c].timeout = None
        /\ objs[callers[c].sub].check = NoCheck
        /\ objs[callers[c].sub].event_name = "on_a"
        /\ objs[callers[c].sub].flag
        /\ hist[callers[c].sub].first = Some(<<2>>)
        /\ ~hist[callers[c].sub].again

\* C5: after a bounded wait of loop_for has timed out the waiter is closed and
\* what was in its queue is yielded in arrival order; loop-timeout is raised
\* only with an empty queue, and by then everything accepted before the close,
\* and nothing dispatched after it, has been yielded.
C5_TimeoutDrains ==
    /\ gen.pc = "lf_drain_yield"
         => /\ ~objs[gen.sub].can_expand
            /\ gen.yielded \o objs[gen.sub].events = hist[gen.sub].accepted
    /\ gen.pc = "lf_timeout"
         => /\ ~objs[gen.sub].can_expand
            /\ objs[gen.sub].events = <<>>
            /\ gen.yielded = hist[gen.sub].accepted

\* loop-timeout after two items were drained and a matching dispatch came
\* too late.
C5_Witness ==
    /\ gen.pc = "lf_timeout"
    /\ hist[gen.sub].drained >= 2
    /\ hist[gen.sub].late

\* C6: once a streaming waiter is closed no step appends to its queue or
\* raises its wake signal: the queue only loses items from the front.
C6_ClosedNeverGrows ==
    [][\A i \in DOMAIN objs :
          (objs[i].kind = "loop" /\ ~objs[i].can_expand)
             => /\ IsSuffix(objs'[i].events, objs[i].events)
                /\ objs'[i].wait => objs[i].wait]_vars

\* A closed waiter, its signal down, was shown a dispatch with its name and a
\* true check.
C6_Witness ==
    /\ gen.pc # "idle"
    /\ ~objs[gen.sub].can_expand
    /\ ~objs[gen.sub].wait
    /\ hist[gen.sub].late

\* C7: loop_for called with iteration_timeout and loop_timeout both None does
\* not fail.
C7_BothAbsentDoesNotFail ==
    (/\ gen.pc # "idle"
     /\ gen.iteration_timeout = None
     /\ gen.loop_timeout = None)
        => gen.pc \notin {"lf_value_error", "lf_type_error"}

\* C8: a dispatch leaves every subscription registered under another name
\* as it was: signal, queue and captured arguments.
C8_OtherNameUntouched ==
    [][\A n \in Names, a \in ArgTuples :
          (DispatchStep /\ process_events(n, a)) =>
              \A i \in DOMAIN objs :
                  objs[i].event_name # n => objs'[i] = objs[i]]_vars

\* A streaming waiter registered after a one-shot waiter, under another
\* name, has accepted a dispatch of its name; the one-shot waiter, in the
\* list all the while, has captured nothing and is not signalled.
C8_Witness ==
    \E i, j \in DOMAIN objs :
        /\ i < j
        /\ objs[i].kind = "event" /\ objs[j].kind = "loop"
        /\ objs[i].event_name # objs[j].event_name
        /\ InList(i)
        /\ hist[j].accepted # <<>>
        /\ objs[i].return_value = None
        /\ ~objs[i].flag

\* C9: a dispatch with a subscription's name whose arguments make its check
\* false does not raise a one-shot waiter's signal, and does not append to a
\* streaming waiter's queue or raise its wake signal.
C9_RejectedNotDelivered ==
    [][\A n \in Names, a \in ArgTuples :
          (DispatchStep /\ process_events(n, a)) =>
              \A i \in Range(event_list) :
                  (/\ objs[i].event_name = n
                   /\ CheckTruthy(objs[i].check)
                   /\ ~CheckApply(objs[i].check, a))
                     => IF objs[i].kind = "event"
                        THEN objs'[i].flag = objs[i].flag
                        ELSE /\ objs'[i].events = objs[i].events
                             /\ objs'[i].wait = objs[i].wait]_vars

\* A one-shot waiter and an open streaming waiter have both captured
\* arguments that their check rejects, and neither was signalled.
C9_Witness ==
    \E i, j \in Range(event_list) :
        /\ objs[i].kind = "event" /\ objs[j].kind = "loop"
        /\ objs[i].return_value # None /\ objs[j].return_value # None
        /\ ~CheckApply(objs[i].check, objs[i].return_value[1])
        /\ ~CheckApply(objs[j].check, objs[j].return_value[1])
        /\ ~objs[i].flag
        /\ objs[j].can_expand /\ ~objs[j].wait /\ objs[j].events = <<>>
        /\ hist[j].accepted = <<>>

\* C10: when the caller suspended in wait_for is cancelled, the waiter it
\* registered is removed from event_list.
C10_NoWaiterAfterCancel ==
    \A c \in Callers :
        callers[c].pc = "wf_cancelled" => ~InList(callers[c].sub)

\* C11: removing a subscription from event_list a second time, after it was
\* already removed, raises no error.
C11_RemoveIsIdempotent ==
    /\ \A i \in DOMAIN hist : ~hist[i].remove_raised
    /\ \A c \in Callers : callers[c].pc # "wf_value_error"

\* C12: one dispatch calls process once on every subscription that is in
\* event_list, in the order of registration, and on nothing else; it runs to
\* its end as one step, so that every matching subscription is signalled or
\* has the arguments enqueued when it returns and no caller or generator
\* frame moves in between.
C12_DispatchIsAtomicAndOrdered ==
    [][/\ \A k \in 1..(Len(event_list') - 1) :
             event_list'[k] < event_list'[k + 1]
       /\ \A n \in Names, a \in ArgTuples :
             (DispatchStep /\ process_events(n, a)) =>
                 \A i \in DOMAIN objs :
                     objs'[i] = IF InList(i) THEN process(objs[i], n, a)
                                ELSE objs[i]]_vars

C12_Witness ==
    /\ event_list = <<1, 2>>
    /\ \A c \in Callers : callers[c].pc = "wf_wait" /\ callers[c].sub = c
    /\ objs[1].event_name = objs[2].event_name
    /\ objs[1].check = NoCheck /\ objs[1].flag
    /\ objs[1].return_value = Some(<<2>>)
    /\ objs[2].check = "is_one" /\ ~objs[2].flag
    /\ objs[2].return_value = Some(<<2>>)

\* C13: in every step of loop_for the bound of the wait is the smaller of
\* iteration_timeout and the remaining loop budget, and never larger than the
\* remaining budget.
C13_WaitBoundedByBudget ==
    (gen.pc \in {"lf_wait", "lf_yield"} /\ gen.loop_timeout # None)
        => /\ gen.timeout # None
           /\ gen.timeout[1] <= gen.loop_timeout[1]
           /\ gen.iteration_timeout # None
                => gen.timeout[1] <= gen.iteration_timeout[1]

\* C14: when the consumer asks for the next item after a yield, a remaining
\* budget of zero or less ends the sequence there, with no error, no wait and
\* no item; a positive one starts another step whose wait is bounded by it.
C14_StopsWhenBudgetSpent ==
    [][\A e \in 0..MaxElapsed :
          (loop_for_next(e) /\ gen.loop_timeout # None) =>
              IF gen.loop_timeout[1] - e <= 0
              THEN /\ gen'.pc = "lf_stop"
                   /\ gen'.yielded = gen.yielded
                   /\ objs' = objs
              ELSE /\ gen'.pc = "lf_wait"
                   /\ gen'.task = "new"
                   /\ gen'.yielded = gen.yielded
                   /\ gen'.timeout # None
                   /\ gen'.timeout[1] <= gen.loop_timeout[1] - e]_vars

\* The sequence ended normally after an item, the budget overspent.
C14_Witness ==
    /\ gen.pc = "lf_stop"
    /\ gen.yielded # <<>>
    /\ gen.loop_timeout[1] < 0

\* C15: with loop_timeout None and a positive iteration_timeout loop_for
\* fails with no error other than loop-timeout.
C15_NoOverallBound ==
    (/\ gen.loop_timeout = None
     /\ gen.iteration_timeout # None
     /\ gen.iteration_timeout[1] > 0)
        => gen.pc \in {"idle", "lf_wait", "lf_yield", "lf_drain_yield",
                       "lf_timeout", "lf_cancelled"}

IsPrefix(s, t) ==
    Len(s) <= Len(t) /\ s = SubSeq(t, 1, Len(s))

\* C16: LoopEmptyError never leaves loop_for: the wait of a normal step never
\* raises it, and it is raised only by the drain loop, on a closed waiter with
\* an empty queue, where it becomes loop-timeout.
C16_EmptyErrorStaysInside ==
    /\ gen.pc # "lf_empty_error"
    /\ gen.pc # "lf_drain_wait"
    /\ gen.pc = "lf_timeout"
         => /\ ~objs[gen.sub].can_expand
            /\ objs[gen.sub].events = <<>>
    /\ gen.pc \in {"lf_wait", "lf_yield"} => objs[gen.sub].can_expand

\* The first pass of the drain loop, after one item of a normal step, found
\* the queue empty.
C16_Witness ==
    /\ gen.pc = "lf_timeout"
    /\ hist[gen.sub].drained = 0
    /\ Len(gen.yielded) = 1

\* The item get_next has popped and loop_for has not yet yielded.
InFlight == IF gen.item = None THEN <<>> ELSE <<gen.item[1]>>

\* C17: what loop_for has yielded is always a prefix of the matching
\* dispatches processed while its waiter was registered and open, the rest of
\* them being the item get_next has just popped and then its queue, in the
\* same order: nothing is yielded twice, out of order or skipped.
C17_YieldsFifoPrefix ==
    gen.pc # "idle"
        => /\ IsPrefix(gen.yielded, hist[gen.sub].accepted)
           /\ objs[gen.sub].can_expand
                => gen.yielded \o InFlight \o objs[gen.sub].events
                       = hist[gen.sub].accepted

\* Two different items yielded, the later dispatched one last.
C17_Witness ==
    /\ gen.pc = "lf_yield"
    /\ gen.yielded = << <<2>>, <<1>> >>
    /\ hist[gen.sub].accepted = gen.yielded

\* C18, as stated: in every state the wake signal of a streaming waiter is
\* raised only while its queue is non-empty.
C18_SignalImpliesQueued ==
    \A i \in DOMAIN objs :
        (objs[i].kind = "loop" /\ objs[i].wait) => objs[i].events # <<>>

\* C18, amended: get_next clears the signal before it suspends on an empty
\* open queue (not when a pop empties it), so while get_next is suspended on
\* the signal the signal is raised exactly when the queue is non-empty: it
\* suspended with the signal down, and only a matching dispatch since then
\* raises it.
C18_SignalWhileSuspended ==
    (gen.pc = "lf_wait" /\ gen.task = "waiting")
        => /\ objs[gen.sub].wait <=> objs[gen.sub].events # <<>>
           /\ objs[gen.sub].can_expand
           /\ gen.yielded \o objs[gen.sub].events = hist[gen.sub].accepted

\* After a pop that emptied the queue get_next suspended, the signal down.
C18_Witness ==
    /\ gen.pc = "lf_wait"
    /\ gen.task = "waiting"
    /\ gen.yielded # <<>>
    /\ objs[gen.sub].events = <<>>
    /\ ~objs[gen.sub].wait

\* C20: when loop_for stops normally every item that was appended to the
\* queue of its waiter has been yielded.
C20_NormalStopLosesNothing ==
    gen.pc = "lf_stop"
        => /\ gen.yielded = hist[gen.sub].accepted
           /\ objs[gen.sub].events = <<>>

\* C19: wait_for returns only if a dispatch with the name of its waiter and
\* arguments that satisfy its check was processed after the waiter was
\* registered; until such a dispatch the signal of the waiter is down, whatever
\* was dispatched before, and the caller is suspended or has timed out.
C19_ReturnsOnlyAfterMatch ==
    \A c \in Callers :
        /\ callers[c].pc = "wf_returned"
             => /\ hist[callers[c].sub].first # None
                /\ callers[c].result # None
        /\ (callers[c].pc = "wf_wait" /\ hist[callers[c].sub].first = None)
             => ~objs[callers[c].sub].flag

\* One caller has returned the dispatched arguments; a second, registered
\* for the same name after that dispatch, is still suspended.
C19_Witness ==
    /\ callers[1].pc = "wf_returned"
    /\ callers[1].result = Some(<<1>>)
    /\ callers[2].pc = "wf_wait"
    /\ callers[2].sub > callers[1].sub
    /\ objs[callers[2].sub].event_name = objs[callers[1].sub].event_name
    /\ objs[callers[2].sub].check = NoCheck
    /\ objs[callers[2].sub].return_value = None
    /\ ~objs[callers[2].sub].flag

====
